---- MODULE Spec2Model ----
(***************************************************************************)
(* A model of src/RPA/webscrawling.py (class BBCNewsScraper).              *)
(*                                                                         *)
(* Text is a sequence of one-character strings.  A parsed page is the     *)
(* sequence of its elements in document order; a card is an element with  *)
(* the sequence of its descendants in document order.                     *)
(***************************************************************************)
EXTENDS Integers, Sequences, FiniteSets, TLC

VARIABLES
    down,        \* the URLs whose fetch fails (server / network state)
    site,        \* article URL -> parsed article page (the server's content)
    now,         \* wall clock read by datetime.now()
    fetched,     \* URLs handed to session.get, in order
    pc,          \* position of the run of scrape_and_summarize
    soup,        \* extract_top_stories: the parsed homepage
    elements,    \* extract_top_stories: the located cards
    idx,         \* extract_top_stories: 1-based position in elements[:15]
    count,       \* extract_top_stories: count
    articles,    \* extract_top_stories: articles (the collected stubs)
    i,           \* scrape_and_summarize: enumerate index
    full_content,\* scrape_and_summarize: full_content of the current article
    processed,   \* scrape_and_summarize: processed_articles
    ret,         \* value returned by scrape_and_summarize
    fpc,         \* position of a single call of one method
    fin,         \* the argument of that call
    fout         \* the value it returned

vars == <<down, site, now, fetched, pc, soup, elements, idx, count, articles,
          i, full_content, processed, ret, fpc, fin, fout>>

runVars == <<down, site, now, fetched, pc, soup, elements, idx, count,
             articles, i, full_content, processed, ret>>

callVars == <<fpc, fin, fout>>

\* An optional value is a sequence: None is the empty one, a present value v
\* is <<v>>, read back as opt[1].
None == <<>>

Some(v) == <<v>>

----------------------------------------------------------------------------
(* Text helpers: what the str methods used by the source do.               *)

Space == " "

\* s[a:b] of Python for 0 <= a <= b (b clipped to len(s))
Slice(s, a, b) ==
    LET e == IF b < Len(s) THEN b ELSE Len(s)
    IN  IF a >= e THEN <<>> ELSE SubSeq(s, a + 1, e)

\* s[:n]
Take(s, n) == Slice(s, 0, n)

\* s[n:]
Drop(s, n) == Slice(s, n, Len(s))

RECURSIVE LStrip(_)
LStrip(s) == IF s # <<>> /\ Head(s) = Space THEN LStrip(Tail(s)) ELSE s

RECURSIVE RStrip(_)
RStrip(s) ==
    IF s # <<>> /\ s[Len(s)] = Space THEN RStrip(SubSeq(s, 1, Len(s) - 1)) ELSE s

\* str.strip()
Strip(s) == RStrip(LStrip(s))

\* str.startswith
StartsWith(s, p) == Len(s) >= Len(p) /\ SubSeq(s, 1, Len(p)) = p

\* str.endswith
EndsWith(s, p) == Len(s) >= Len(p) /\ SubSeq(s, Len(s) - Len(p) + 1, Len(s)) = p

\* sep.join(parts)
RECURSIVE Join(_, _)
Join(sep, parts) ==
    IF parts = <<>> THEN <<>>
    ELSE IF Len(parts) = 1 THEN parts[1]
    ELSE parts[1] \o sep \o Join(sep, Tail(parts))


\* n copies of the text t
RECURSIVE Rep(_, _)
Rep(t, n) == IF n <= 0 THEN <<>> ELSE t \o Rep(t, n - 1)

----------------------------------------------------------------------------
(* __init__                                                                *)

base_url == <<"h","t","t","p","s",":","/","/","w","w","w",".","b","b","c",".","c","o","m">>

news_url == base_url \o <<"/","n","e","w","s">>

SchemeHttps == <<"h","t","t","p","s",":">>

\* the index of the first "/" of s at or after position k, Len(s)+1 if none
RECURSIVE NextSlash(_, _)
NextSlash(s, k) ==
    IF k > Len(s) THEN Len(s) + 1
    ELSE IF s[k] = "/" THEN k ELSE NextSlash(s, k + 1)

\* urllib.parse.urljoin(base_url, link) for a link that starts with "/" and
\* holds no "?", "#", ";" or "." segment: a network-path reference
\* ("//host/..") keeps its own host and takes the base's scheme; an absolute
\* path replaces the (empty) path of base_url.
urljoin(base, link) ==
    IF StartsWith(link, <<"/", "/">>)
    THEN LET e == NextSlash(link, 3)
             path == Drop(link, e - 1)
         IN  IF e > 3 THEN SchemeHttps \o link
             ELSE base \o path
    ELSE base \o link

\* an absolute URL: scheme "http:" or "https:", then "//" and a host
IsAbsolute(url) ==
    \E s \in {<<"h","t","t","p",":","/","/">>, SchemeHttps \o <<"/","/">>} :
        /\ StartsWith(url, s)
        /\ Len(url) > Len(s)
        /\ url[Len(s) + 1] \notin {"/", Space}

----------------------------------------------------------------------------
(* The parse tree: an element is a record                                 *)
(*   tag, cls (class), tid (data-testid), comp (data-component),          *)
(*   anc (the tags and classes of the elements enclosing it),             *)
(*   href (NoHref if the attribute is absent), text (its text content),   *)
(*   and for a card: kids (its descendants in document order) and fault   *)
(*   (reading it raises inside extract_article_info).                     *)

\* the value of href when the attribute is absent (not a text: its element
\* is not a character)
NoHref == <<"NoHref">>

Node(tag, cls, tid, comp, anc, href, text) ==
    [tag |-> tag, cls |-> cls, tid |-> tid, comp |-> comp, anc |-> anc,
     href |-> href, text |-> text]

\* whether element n matches the CSS selector sel
Matches(sel, n) ==
    CASE sel \in {"h1", "h2", "h3", "p", "article"} -> n.tag = sel
      [] sel = "a[href]" -> n.tag = "a" /\ n.href # NoHref
      [] sel = "h2 a" -> n.tag = "a" /\ "h2" \in n.anc
      [] sel = "h3 a" -> n.tag = "a" /\ "h3" \in n.anc
      [] sel = "article[data-testid=\"card\"]" -> n.tag = "article" /\ n.tid = "card"
      [] sel = "div[data-testid=\"card\"]" -> n.tag = "div" /\ n.tid = "card"
      [] sel = ".nw-c-promo" -> n.cls = "nw-c-promo"
      [] sel = ".gs-c-promo" -> n.cls = "gs-c-promo"
      [] sel = ".gs-c-promo-heading__title" -> n.cls = "gs-c-promo-heading__title"
      [] sel = ".gs-c-promo-summary" -> n.cls = "gs-c-promo-summary"
      [] sel = "[data-testid=\"card-headline\"]" -> n.tid = "card-headline"
      [] sel = "[data-testid=\"card-description\"]" -> n.tid = "card-description"
      [] sel = "[data-component=\"text-block\"]" -> n.comp = "text-block"
      [] sel = ".story-body__inner p" -> n.tag = "p" /\ "story-body__inner" \in n.anc
      [] sel = "article p" -> n.tag = "p" /\ "article" \in n.anc
      [] sel = ".ssrcss-7uxr49-RichTextContainer p" ->
             n.tag = "p" /\ "ssrcss-7uxr49-RichTextContainer" \in n.anc

\* Tag.select(selector): the matching elements, in document order
RECURSIVE select(_, _)
select(nodes, sel) ==
    IF nodes = <<>> THEN <<>>
    ELSE (IF Matches(sel, Head(nodes)) THEN <<Head(nodes)>> ELSE <<>>)
         \o select(Tail(nodes), sel)

\* Tag.select_one(selector): the first matching element, or None
select_one(nodes, sel) == Take(select(nodes, sel), 1)

\* Tag.get_text(strip=True)
get_text(n) == Strip(n.text)

----------------------------------------------------------------------------
(* extract_article_info                                                    *)

SummaryLimit == 200

Ellipsis == <<".", ".", ".">>

title_selectors ==
    <<"h2", "h3", "h1", ".gs-c-promo-heading__title", "[data-testid=\"card-headline\"]">>

link_selectors == <<"a[href]", "h2 a", "h3 a">>

summary_selectors == <<"p", ".gs-c-promo-summary", "[data-testid=\"card-description\"]">>

\* lines 80-84: the text of the first title selector that matches an element
\* (None if none matches); the loop breaks at the first match, whatever its text
RECURSIVE TitleLoop(_, _)
TitleLoop(kids, sels) ==
    IF sels = <<>> THEN None
    ELSE LET title_elem == select_one(kids, Head(sels))
         IN  IF title_elem # None THEN Some(get_text(title_elem[1]))
             ELSE TitleLoop(kids, Tail(sels))

\* lines 93-99: the href of the first link selector whose element carries a
\* non-empty href, made absolute against base_url when it starts with "/"
RECURSIVE LinkLoop(_, _)
LinkLoop(kids, sels) ==
    IF sels = <<>> THEN None
    ELSE LET link_elem == select_one(kids, Head(sels))
         IN  IF link_elem # None /\ link_elem[1].href # NoHref /\ link_elem[1].href # <<>>
             THEN IF StartsWith(link_elem[1].href, <<"/">>)
                  THEN Some(urljoin(base_url, link_elem[1].href))
                  ELSE Some(link_elem[1].href)
             ELSE LinkLoop(kids, Tail(sels))

\* lines 108-112: the text of the first summary selector that matches, else ""
RECURSIVE SummaryLoop(_, _)
SummaryLoop(kids, sels) ==
    IF sels = <<>> THEN <<>>
    ELSE LET summary_elem == select_one(kids, Head(sels))
         IN  IF summary_elem # None THEN get_text(summary_elem[1])
             ELSE SummaryLoop(kids, Tail(sels))

\* line 117 with >= for >
TruncateSummaryAtLimit(summary) ==
    IF Len(summary) >= SummaryLimit THEN Take(summary, SummaryLimit) \o Ellipsis
    ELSE summary

\* line 117
TruncateSummary(summary) ==
    IF Len(summary) > SummaryLimit THEN Take(summary, SummaryLimit) \o Ellipsis
    ELSE summary

\* extract_article_info(element) called when the clock reads t: None, or the
\* stub; a fault raised inside the try block is caught and gives None
extract_article_info(element, t) ==
    IF element.fault THEN None
    ELSE LET title == TitleLoop(element.kids, title_selectors)
             link == LinkLoop(element.kids, link_selectors)
             summary == SummaryLoop(element.kids, summary_selectors)
         IN  IF title = None \/ title[1] = <<>> THEN None
             ELSE IF link = None THEN None
             ELSE Some([title |-> title[1], link |-> link[1],
                        summary |-> TruncateSummary(summary), scraped_at |-> t])

----------------------------------------------------------------------------
(* get_page                                                                *)

\* get_page without the except clause doing its work: a failed fetch passes
\* for a response
get_pageIgnoringFailure(url, served) == served

\* get_page(url) when the server holds the page `served` for url (None: it
\* answers with an error status).  session.get raises a RequestException for
\* a URL that is not absolute http(s) (MissingSchema, InvalidSchema), for a
\* transport error or a timeout, and raise_for_status raises one for an error
\* status; each is caught and gives None.
get_page(url, served) ==
    IF ~IsAbsolute(url) \/ url \in down THEN None ELSE served

----------------------------------------------------------------------------
(* get_full_article_content                                                *)

MaxParagraphs == 5

content_selectors ==
    <<"[data-component=\"text-block\"]", ".story-body__inner p", "article p",
      ".ssrcss-7uxr49-RichTextContainer p">>

\* [p.get_text(strip=True) for p in paragraphs if p.get_text(strip=True)]
RECURSIVE NonEmptyTexts(_)
NonEmptyTexts(paragraphs) ==
    IF paragraphs = <<>> THEN <<>>
    ELSE (IF get_text(Head(paragraphs)) # <<>> THEN <<get_text(Head(paragraphs))>>
          ELSE <<>>) \o NonEmptyTexts(Tail(paragraphs))

\* lines 144-150 with the slice taken before the empty texts are dropped
RECURSIVE ContentLoopSliceFirst(_, _)
ContentLoopSliceFirst(page, sels) ==
    IF sels = <<>> THEN <<>>
    ELSE LET paragraphs == select(page, Head(sels))
         IN  IF paragraphs # <<>> THEN NonEmptyTexts(Take(paragraphs, MaxParagraphs))
             ELSE ContentLoopSliceFirst(page, Tail(sels))

\* lines 144-148: the texts of the first content selector that matches
RECURSIVE ContentLoop(_, _)
ContentLoop(page, sels) ==
    IF sels = <<>> THEN <<>>
    ELSE LET paragraphs == select(page, Head(sels))
         IN  IF paragraphs # <<>> THEN NonEmptyTexts(paragraphs)
             ELSE ContentLoop(page, Tail(sels))

\* lines 129-150, given what get_page returned
ArticleContent(response) ==
    IF response = None THEN <<>>
    ELSE Join(<<Space>>, Take(ContentLoop(response[1], content_selectors), MaxParagraphs))

\* the page the server holds for url, None when it holds none
Serve(url) == IF url \in DOMAIN site THEN Some(site[url]) ELSE None

get_full_article_content(url) == ArticleContent(get_page(url, Serve(url)))

----------------------------------------------------------------------------
(* generate_summary                                                        *)

MinSummaryLen == 50

MinSentenceLen == 20

Terminators == {".", "!", "?"}

\* re.split(r'[.!?]+', text): the pieces between maximal runs of terminators
\* (cur is the piece being read, inRun whether the last character read was a
\* terminator)
RECURSIVE SplitFrom(_, _, _)
SplitFrom(text, cur, inRun) ==
    IF text = <<>> THEN <<cur>>
    ELSE IF Head(text) \in Terminators
         THEN IF inRun THEN SplitFrom(Tail(text), cur, TRUE)
              ELSE <<cur>> \o SplitFrom(Tail(text), <<>>, TRUE)
         ELSE SplitFrom(Tail(text), Append(cur, Head(text)), FALSE)

SplitSentences(text) == SplitFrom(text, <<>>, FALSE)

\* [s.strip() for s in sentences if len(s.strip()) > 20]
RECURSIVE LongSentences(_)
LongSentences(sentences) ==
    IF sentences = <<>> THEN <<>>
    ELSE (IF Len(Strip(Head(sentences))) > MinSentenceLen
          THEN <<Strip(Head(sentences))>> ELSE <<>>)
         \o LongSentences(Tail(sentences))

\* line 159 with >= for >
GoodExistingAtLeast(existing_summary) ==
    existing_summary # <<>> /\ Len(Strip(existing_summary)) >= MinSummaryLen

\* line 159
GoodExisting(existing_summary) ==
    existing_summary # <<>> /\ Len(Strip(existing_summary)) > MinSummaryLen

\* line 169
FirstSentences(sentences) ==
    IF Len(sentences) >= 2 THEN Take(sentences, 2) ELSE Take(sentences, 1)

FallbackPrefix == <<"N","e","w","s"," ","a","r","t","i","c","l","e",":"," ">>

generate_summary(title, existing_summary, content) ==
    IF GoodExisting(existing_summary) THEN existing_summary
    ELSE LET sentences == IF content # <<>>
                          THEN LongSentences(SplitSentences(content)) ELSE <<>>
             summary == Join(<<".", Space>>, FirstSentences(sentences))
         IN  IF sentences # <<>>
             THEN IF summary # <<>> /\ ~EndsWith(summary, <<".">>)
                  THEN summary \o <<".">> ELSE summary
             ELSE FallbackPrefix \o title

----------------------------------------------------------------------------
(* extract_top_stories: locating the cards                                 *)

MaxCandidates == 15

MaxArticles == 10

selectors ==
    <<"article[data-testid=\"card\"]", "div[data-testid=\"card\"]", ".nw-c-promo",
      ".gs-c-promo", "article">>

\* lines 54-58 without the break: the result of the last select stands
SelectorLoopNoBreak(doc, sels) ==
    IF sels = <<>> THEN <<>> ELSE select(doc, sels[Len(sels)])

\* lines 54-58: the matches of the first selector that has any; after a loop
\* that never breaks, elements is the (empty) result of the last select
RECURSIVE SelectorLoop(_, _)
SelectorLoop(doc, sels) ==
    IF sels = <<>> THEN <<>>
    ELSE LET found == select(doc, Head(sels))
         IN  IF found # <<>> THEN found ELSE SelectorLoop(doc, Tail(sels))

----------------------------------------------------------------------------
(* The pages the runs are checked on                                       *)

MaxCards == 16

MaxPattern == 3

Card(tag, cls, tid, kids, fault) ==
    [tag |-> tag, cls |-> cls, tid |-> tid, comp |-> "", anc |-> {}, href |-> NoHref,
     text |-> <<>>, kids |-> kids, fault |-> fault]

Plain(tag, text) == Node(tag, "", "", "", {}, NoHref, text)

Anchor(anc, href) == Node("a", "", "", "", anc, href, <<>>)

hrefA == <<"/", "a">>

hrefB == base_url \o <<"/", "b">>

urlA == base_url \o hrefA

urlB == hrefB

\* the contents of a card, by kind
\*   "A": <h2><a href="/a">A</a></h2><p>sa</p>
\*   "B": <h3>B</h3><a href="https://www.bbc.com/b"></a>
\*   "NoTitle": a link and a paragraph, no heading
\*   "NoLink": a heading, no anchor
\*   "Fault": a card whose reading raises
\*   "D": <h1> D </h1><a href="/a"></a>
Kids(kind) ==
    CASE kind = "A" -> <<Plain("h2", <<"A">>), Anchor({"h2"}, hrefA), Plain("p", <<"s", "a">>)>>
      [] kind = "B" -> <<Plain("h3", <<"B">>), Anchor({}, hrefB)>>
      [] kind = "NoTitle" -> <<Anchor({}, hrefA), Plain("p", <<"s">>)>>
      [] kind = "NoLink" -> <<Plain("h2", <<"C">>)>>
      [] kind = "Fault" -> <<Plain("h2", <<"F">>), Anchor({}, hrefA)>>
      [] kind = "D" -> <<Plain("h1", <<Space, "D", Space>>), Anchor({}, hrefA)>>

\* the card element of the markup generation w (the w-th selector is the
\* first that matches it) holding the contents of a kind
Wrapped(w, kind) ==
    CASE w = 1 -> Card("article", "", "card", Kids(kind), kind = "Fault")
      [] w = 2 -> Card("div", "", "card", Kids(kind), kind = "Fault")
      [] w = 3 -> Card("div", "nw-c-promo", "", Kids(kind), kind = "Fault")
      [] w = 4 -> Card("div", "gs-c-promo", "", Kids(kind), kind = "Fault")
      [] w = 5 -> Card("article", "", "", Kids(kind), kind = "Fault")

\* the kinds of card that give no stub, and the slots of a pattern: a card
\* of kind "A", one of kind "B", or ("X") one that gives no stub
FailKinds == <<"NoTitle", "NoLink", "Fault">>

Slots == {"A", "B", "X"}

Patterns == UNION {[1..k -> Slots] : k \in 1..MaxPattern}

\* cards k..n of markup generation w: the slots repeat the pattern, and the
\* cards in the "X" slots take the kinds of FailKinds in turn (fails: the
\* number of "X" slots before card k)
RECURSIVE PeriodicFrom(_, _, _, _, _)
PeriodicFrom(w, pattern, n, k, fails) ==
    IF k > n THEN <<>>
    ELSE LET slot == pattern[((k - 1) % Len(pattern)) + 1]
         IN  IF slot = "X"
             THEN <<Wrapped(w, FailKinds[(fails % Len(FailKinds)) + 1])>>
                  \o PeriodicFrom(w, pattern, n, k + 1, fails + 1)
             ELSE <<Wrapped(w, slot)>> \o PeriodicFrom(w, pattern, n, k + 1, fails)

Periodic(w, pattern, n) == PeriodicFrom(w, pattern, n, 1, 0)

\* an element that is no card
Banner == <<Card("div", "banner", "", <<Plain("h2", <<"N">>), Anchor({}, hrefA)>>, FALSE)>>

\* homepages: n cards of one markup generation in a repeating pattern; and
\* pages mixing two markup generations after a banner
Documents ==
    {Periodic(1, pattern, n) : pattern \in Patterns, n \in 0..MaxCards}
    \cup {Banner \o Periodic(w, <<"A">>, n) \o Periodic(v, <<"D">>, m) :
            w \in 1..Len(selectors), v \in 1..Len(selectors), n \in 0..1, m \in 0..2}

\* article pages
TextBlock(text) == Node("div", "", "", "text-block", {}, NoHref, text)

Para(anc, text) == Node("p", "", "", "", anc, NoHref, text)

pageA == <<TextBlock(<<"x">>), TextBlock(<<>>), Para({"article"}, <<"y">>)>>

pageB == <<Para({"article"}, <<"z", Space>>)>>

Sites == {(urlA :> pageA) @@ (urlB :> pageB)}

----------------------------------------------------------------------------
(* One run of scrape_and_summarize                                         *)

Idle ==
    /\ fpc = "idle"
    /\ fin = <<>>
    /\ fout = <<>>

Init ==
    /\ down \in SUBSET {news_url, urlA, urlB}
    /\ site \in Sites
    /\ now = 0
    /\ fetched = <<>>
    /\ pc = "start"
    /\ soup = None
    /\ elements = <<>>
    /\ idx = 0
    /\ count = 0
    /\ articles = <<>>
    /\ i = 0
    /\ full_content = <<>>
    /\ processed = <<>>
    /\ ret = <<>>
    /\ Idle

\* lines 36-40, 184-186: the homepage fetch fails and the run returns []
HomepageFails ==
    /\ pc = "start"
    /\ get_page(news_url, Some(<<>>)) = None
    /\ fetched' = Append(fetched, news_url)
    /\ ret' = <<>>
    /\ pc' = "done"
    /\ UNCHANGED <<down, site, now, soup, elements, idx, count, articles, i,
                   full_content, processed, callVars>>

\* lines 36-43: the homepage is fetched and parsed
HomepageParsed ==
    /\ pc = "start"
    /\ \E doc \in Documents :
        /\ get_page(news_url, Some(doc)) # None
        /\ soup' = get_page(news_url, Some(doc))
    /\ fetched' = Append(fetched, news_url)
    /\ articles' = <<>>
    /\ pc' = "select"
    /\ UNCHANGED <<down, site, now, elements, idx, count, i, full_content,
                   processed, ret, callVars>>

\* lines 46-60
SelectCards ==
    /\ pc = "select"
    /\ elements' = SelectorLoop(soup[1], selectors)
    /\ count' = 0
    /\ idx' = 0
    /\ pc' = "loop"
    /\ UNCHANGED <<down, site, now, fetched, soup, articles, i, full_content,
                   processed, ret, callVars>>

\* lines 61-63 without the check of count
NextCardNoCap ==
    /\ pc = "loop"
    /\ idx < Len(Take(elements, MaxCandidates))
    /\ idx' = idx + 1
    /\ pc' = "extract"
    /\ UNCHANGED <<down, site, now, fetched, soup, elements, count, articles, i,
                   full_content, processed, ret, callVars>>

\* lines 61-63: the loop takes the next of elements[:15] unless count >= 10
NextCard ==
    /\ pc = "loop"
    /\ idx < Len(Take(elements, MaxCandidates))
    /\ ~(count >= MaxArticles)
    /\ idx' = idx + 1
    /\ pc' = "extract"
    /\ UNCHANGED <<down, site, now, fetched, soup, elements, count, articles, i,
                   full_content, processed, ret, callVars>>

\* lines 65-69 with a failed extraction ending the loop
ExtractCardAbort ==
    /\ pc = "extract"
    /\ LET article_data == extract_article_info(elements[idx], now)
       IN  IF article_data # None
           THEN /\ articles' = Append(articles, article_data[1])
                /\ count' = count + 1
                /\ idx' = idx
           ELSE /\ UNCHANGED <<articles, count>>
                /\ idx' = Len(elements)
    /\ now' = now + 1
    /\ pc' = "loop"
    /\ UNCHANGED <<down, site, fetched, soup, elements, i, full_content,
                   processed, ret, callVars>>

\* lines 65-69; the clock moves on by one tick with every extraction, so the
\* stubs of one run carry different scraped_at values
ExtractCard ==
    /\ pc = "extract"
    /\ LET article_data == extract_article_info(elements[idx], now)
       IN  IF article_data # None
           THEN /\ articles' = Append(articles, article_data[1])
                /\ count' = count + 1
           ELSE UNCHANGED <<articles, count>>
    /\ now' = now + 1
    /\ pc' = "loop"
    /\ UNCHANGED <<down, site, fetched, soup, elements, idx, i, full_content,
                   processed, ret, callVars>>

LoopOver ==
    /\ pc = "loop"
    /\ ~(idx < Len(Take(elements, MaxCandidates)) /\ ~(count >= MaxArticles))

\* lines 71, 184-186: extract_top_stories returns no article, the run returns []
NoArticles ==
    /\ LoopOver
    /\ articles = <<>>
    /\ ret' = <<>>
    /\ pc' = "done"
    /\ UNCHANGED <<down, site, now, fetched, soup, elements, idx, count, articles,
                   i, full_content, processed, callVars>>

\* lines 71, 184-192: extract_top_stories returns articles, processing starts
StartProcessing ==
    /\ LoopOver
    /\ articles # <<>>
    /\ processed' = <<>>
    /\ i' = 1
    /\ pc' = "fetch"
    /\ UNCHANGED <<down, site, now, fetched, soup, elements, idx, count, articles,
                   full_content, ret, callVars>>

\* line 196
FetchArticle ==
    /\ pc = "fetch"
    /\ i <= Len(articles)
    /\ fetched' = Append(fetched, articles[i].link)
    /\ full_content' = get_full_article_content(articles[i].link)
    /\ pc' = "summarize"
    /\ UNCHANGED <<down, site, now, soup, elements, idx, count, articles, i,
                   processed, ret, callVars>>

\* lines 199-211 with the rank counted from 0
ProcessedArticleFromZero(rank, article, content) ==
    [rank |-> rank - 1, title |-> article.title,
     summary |-> generate_summary(article.title, article.summary, content),
     link |-> article.link, scraped_at |-> article.scraped_at]

\* lines 199-211
ProcessedArticle(rank, article, content) ==
    [rank |-> rank, title |-> article.title,
     summary |-> generate_summary(article.title, article.summary, content),
     link |-> article.link, scraped_at |-> article.scraped_at]

\* lines 199-216; time.sleep(1) moves the clock on
Summarize ==
    /\ pc = "summarize"
    /\ processed' = Append(processed, ProcessedArticle(i, articles[i], full_content))
    /\ now' = now + 1
    /\ i' = i + 1
    /\ pc' = "fetch"
    /\ UNCHANGED <<down, site, fetched, soup, elements, idx, count, articles,
                   full_content, ret, callVars>>

\* line 218
Return ==
    /\ pc = "fetch"
    /\ i > Len(articles)
    /\ ret' = processed
    /\ pc' = "done"
    /\ UNCHANGED <<down, site, now, fetched, soup, elements, idx, count, articles,
                   i, full_content, processed, callVars>>

Next ==
    \/ HomepageFails
    \/ HomepageParsed
    \/ SelectCards
    \/ NextCard
    \/ ExtractCard
    \/ NoArticles
    \/ StartProcessing
    \/ FetchArticle
    \/ Summarize
    \/ Return

Spec == Init /\ [][Next]_vars

----------------------------------------------------------------------------
(* One call of extract_article_info                                        *)

MaxBlocks == 3

Digits == <<"0", "1", "2", "3", "4", "5", "6", "7", "8", "9">>

\* a text of n characters, the k-th being the last digit of k
LongText(n) == [k \in 1..n |-> Digits[(k % 10) + 1]]

Classed(tag, cls, text) == Node(tag, cls, "", "", {}, NoHref, text)

TestId(tag, tid, text) == Node(tag, "", tid, "", {}, NoHref, text)

\* the pieces of markup a card is made of
Blocks ==
    { <<Plain("h2", <<"T">>)>>,
      <<Plain("h2", <<>>)>>,
      <<Plain("h3", <<Space, "U", Space>>)>>,
      <<Classed("span", "gs-c-promo-heading__title", <<"W">>)>>,
      <<TestId("span", "card-headline", <<Space>>)>>,
      <<Plain("h2", <<"L">>), Anchor({"h2"}, hrefA)>>,
      <<Plain("h3", <<"V">>), Anchor({"h3"}, NoHref)>>,
      <<Anchor({}, <<"a", "/", "b">>)>>,
      <<Anchor({}, hrefB)>>,
      <<Anchor({}, <<>>)>>,
      <<Anchor({}, <<"/", "/", "x", "/", "a">>)>>,
      <<Plain("p", <<"s">>)>>,
      <<Plain("p", <<Space>> \o LongText(SummaryLimit) \o <<Space>>)>>,
      <<Plain("p", LongText(SummaryLimit + 1))>>,
      <<Classed("span", "gs-c-promo-summary", LongText(SummaryLimit + 3))>> }

RECURSIVE Concat(_)
Concat(seqs) == IF seqs = <<>> THEN <<>> ELSE Head(seqs) \o Concat(Tail(seqs))

\* the cards made of at most MaxBlocks blocks, and the faulty ones of one block
ExtractInputs ==
    {Card("div", "", "card", Concat(bs), FALSE) :
        bs \in UNION {[1..k -> Blocks] : k \in 0..MaxBlocks}}
    \cup {Card("div", "", "card", b, TRUE) : b \in Blocks}

IdleRun ==
    /\ down = {}
    /\ site = <<>>
    /\ now = 0
    /\ fetched = <<>>
    /\ pc = "idle"
    /\ soup = None
    /\ elements = <<>>
    /\ idx = 0
    /\ count = 0
    /\ articles = <<>>
    /\ i = 0
    /\ full_content = <<>>
    /\ processed = <<>>
    /\ ret = <<>>

InitExtract ==
    /\ IdleRun
    /\ fpc = "extract_article_info"
    /\ fin \in ExtractInputs
    /\ fout = None

CallExtract ==
    /\ fpc = "extract_article_info"
    /\ fout' = extract_article_info(fin, now)
    /\ fpc' = "returned"
    /\ fin' = fin
    /\ UNCHANGED runVars

SpecExtract == InitExtract /\ [][CallExtract]_vars

----------------------------------------------------------------------------
(* One call of generate_summary                                            *)

MaxPieces == 3

Letters == <<"a", "b", "c", "d", "e", "f">>

\* the text of the k-th piece of a body: pad spaces, then n letters (the k-th
\* letter of the alphabet, a space in second place when n > 2), then pad spaces
PieceText(k, n, pad) ==
    Rep(<<Space>>, pad)
    \o [j \in 1..n |-> IF j = 2 /\ n > 2 THEN Space ELSE Letters[k]]
    \o Rep(<<Space>>, pad)

\* a piece of a body: n letters, pad spaces around them, and the run of
\* terminators that ends it
PieceChoices ==
    { [n |-> 0, pad |-> 0, term |-> <<".">>],
      [n |-> 0, pad |-> 1, term |-> <<"?", "!">>],
      [n |-> MinSentenceLen, pad |-> 0, term |-> <<".">>],
      [n |-> MinSentenceLen, pad |-> 1, term |-> <<"?", "!">>],
      [n |-> MinSentenceLen + 1, pad |-> 0, term |-> <<".">>],
      [n |-> MinSentenceLen + 1, pad |-> 1, term |-> <<"!">>] }

BodyShapes == UNION {[1..k -> PieceChoices] : k \in 0..MaxPieces}

\* the pieces of a body; the last one has no terminator unless ended
Pieces(shape, ended) ==
    [k \in 1..Len(shape) |->
        [text |-> PieceText(k, shape[k].n, shape[k].pad),
         term |-> IF k = Len(shape) /\ ~ended THEN <<>> ELSE shape[k].term]]

RECURSIVE BodyText(_)
BodyText(pieces) ==
    IF pieces = <<>> THEN <<>>
    ELSE Head(pieces).text \o Head(pieces).term \o BodyText(Tail(pieces))

ExistingSummaries ==
    {Rep(<<Space>>, pad) \o Rep(<<"s">>, n) \o Rep(<<Space>>, pad) :
        n \in {0, MinSummaryLen, MinSummaryLen + 1}, pad \in 0..1}

SummaryInputs ==
    {[title |-> t, existing_summary |-> e, pieces |-> Pieces(shape, ended)] :
        t \in {<<>>, <<"T">>}, e \in ExistingSummaries, shape \in BodyShapes,
        ended \in BOOLEAN}

InitSummary ==
    /\ IdleRun
    /\ fpc = "generate_summary"
    /\ fin \in SummaryInputs
    /\ fout = None

CallSummary ==
    /\ fpc = "generate_summary"
    /\ fout' = Some(generate_summary(fin.title, fin.existing_summary, BodyText(fin.pieces)))
    /\ fpc' = "returned"
    /\ fin' = fin
    /\ UNCHANGED runVars

SpecSummary == InitSummary /\ [][CallSummary]_vars

----------------------------------------------------------------------------
(* One call of get_full_article_content                                    *)

MaxParas == 7

\* the k-th block of an article page, by shape: a text block with text, an
\* empty text block, a paragraph of the article with text
ParaBlock(k, shape) ==
    CASE shape = "text" -> TextBlock(<<Space, Letters[((k - 1) % Len(Letters)) + 1]>>)
      [] shape = "empty" -> TextBlock(<<Space>>)
      [] shape = "para" -> Para({"article"}, <<Letters[((k - 1) % Len(Letters)) + 1], Space>>)

ParaShapes == {"text", "empty", "para"}

ArticlePages ==
    {[k \in 1..Len(shapes) |-> ParaBlock(k, shapes[k])] :
        shapes \in UNION {[1..n -> ParaShapes] : n \in 0..MaxParas}}

InitContent ==
    /\ down \in SUBSET {urlA}
    /\ site \in {(urlA :> page) : page \in ArticlePages}
    /\ now = 0
    /\ fetched = <<>>
    /\ pc = "idle"
    /\ soup = None
    /\ elements = <<>>
    /\ idx = 0
    /\ count = 0
    /\ articles = <<>>
    /\ i = 0
    /\ full_content = <<>>
    /\ processed = <<>>
    /\ ret = <<>>
    /\ fpc = "get_full_article_content"
    /\ fin \in {urlA, hrefA}
    /\ fout = None

CallContent ==
    /\ fpc = "get_full_article_content"
    /\ fetched' = Append(fetched, fin)
    /\ fout' = Some(get_full_article_content(fin))
    /\ fpc' = "returned"
    /\ fin' = fin
    /\ UNCHANGED <<down, site, now, pc, soup, elements, idx, count, articles, i,
                   full_content, processed, ret>>

SpecContent == InitContent /\ [][CallContent]_vars

----------------------------------------------------------------------------
(* Properties of a run                                                     *)

Min(S) == CHOOSE x \in S : \A y \in S : x <= y

\* extract_top_stories has returned
Returned == pc \in {"fetch", "summarize", "done"}

\* what a stub says of its card
StubContent(stub) == <<stub.title, stub.link, stub.summary>>

ContentsOf(stubs) == [k \in 1..Len(stubs) |-> StubContent(stubs[k])]

\* the contents of the stubs of the cards that give one, in the cards' order
RECURSIVE Successes(_)
Successes(cards) ==
    IF cards = <<>> THEN <<>>
    ELSE (IF extract_article_info(Head(cards), 0) # None
          THEN <<StubContent(extract_article_info(Head(cards), 0)[1])>> ELSE <<>>)
         \o Successes(Tail(cards))

GivesStub(card) == extract_article_info(card, 0) # None

\* C1: at most 10 stubs are collected and at most 10 records returned;
\* extract_article_info is invoked only on one of the first 15 located cards,
\* and never once 10 stubs are collected.
C1_CapAndWindow ==
    /\ Len(articles) <= 10
    /\ count <= 10
    /\ Len(processed) <= 10
    /\ Len(ret) <= 10
    /\ pc = "extract" =>
        /\ idx \in 1..15
        /\ idx <= Len(elements)
        /\ Len(articles) < 10

\* a run that stopped at 10 stubs with located cards left inside the window
C1_Witness ==
    /\ pc = "done"
    /\ Len(ret) = 10
    /\ idx < 15
    /\ Len(elements) > 15
    /\ \E k \in 1..idx : ~GivesStub(elements[k])

\* C2: the returned records have ranks 1..n in order, one record per stub,
\* and the record of rank k carries the title, link and scraped_at of the
\* k-th stub.
C2_Ranks ==
    pc = "done" =>
        /\ Len(ret) = Len(articles)
        /\ \A k \in 1..Len(ret) :
            /\ ret[k].rank = k
            /\ ret[k].title = articles[k].title
            /\ ret[k].link = articles[k].link
            /\ ret[k].scraped_at = articles[k].scraped_at

\* a finished run with records of different titles, after a skipped card
C2_Witness ==
    /\ pc = "done"
    /\ Len(ret) >= 3
    /\ ret[1].title # ret[2].title
    /\ ~GivesStub(elements[1])

\* C3: the stubs extract_top_stories returns are the stubs of the cards that
\* give one among the first 15 located cards, in the cards' order, cut to the
\* first 10.
C3_SkipsFailures ==
    Returned => ContentsOf(articles) = Take(Successes(Take(elements, 15)), 10)

\* a return of 10 stubs where a failing card of each kind stands before a
\* card that gave a stub
C3_Witness ==
    /\ Returned
    /\ Len(articles) = 10
    /\ \E k \in 1..idx : GivesStub(elements[k]) /\ \E j \in 1..(k - 1) : elements[j].fault
    /\ \E k \in 1..idx : GivesStub(elements[k]) /\ \E j \in 1..(k - 1) :
          ~elements[j].fault /\ TitleLoop(elements[j].kids, title_selectors) = None
    /\ \E k \in 1..idx : GivesStub(elements[k]) /\ \E j \in 1..(k - 1) :
          ~elements[j].fault /\ LinkLoop(elements[j].kids, link_selectors) = None

\* C4: when the homepage fetch fails the run returns the empty sequence; no
\* card is located or extracted, no article is fetched, no record is made.
C4_HomepageDown ==
    news_url \in down =>
        /\ pc \in {"start", "done"}
        /\ soup = None
        /\ elements = <<>>
        /\ articles = <<>>
        /\ processed = <<>>
        /\ now = 0
        /\ pc = "start" => fetched = <<>> /\ ENABLED HomepageFails
        /\ pc = "done" => ret = <<>> /\ fetched = <<news_url>>

C4_Witness == news_url \in down /\ pc = "done"

\* the selectors that match something in the parsed homepage
Hits(doc) == {k \in 1..Len(selectors) : select(doc, selectors[k]) # <<>>}

\* C7: the located cards are the matches of the first selector that matches
\* anything, and of no other; when no selector matches, no card is located
\* and the run returns the empty sequence.
C7_FirstSelector ==
    (soup # None /\ pc # "select") =>
        IF Hits(soup[1]) = {}
        THEN /\ elements = <<>>
             /\ pc \in {"loop", "done"}
             /\ pc = "done" => ret = <<>>
        ELSE elements = select(soup[1], selectors[Min(Hits(soup[1]))])

\* cards located on a page where a later selector matches other elements
C7_Witness ==
    /\ soup # None
    /\ pc = "loop"
    /\ \E k \in Hits(soup[1]) :
        /\ k > Min(Hits(soup[1]))
        /\ \E j \in 1..Len(select(soup[1], selectors[k])) :
             \A m \in 1..Len(elements) : elements[m] # select(soup[1], selectors[k])[j]
    /\ elements # <<>>

\* a run on a page with elements and no card
C7_WitnessNone == soup # None /\ soup[1] # <<>> /\ Hits(soup[1]) = {} /\ pc = "done"

----------------------------------------------------------------------------
(* Properties of extract_article_info                                      *)

\* C5: the link of every stub is an absolute URL.
C5_AbsoluteLink ==
    (fpc = "returned" /\ fout # None) => IsAbsolute(fout[1].link)

\* what holds instead: the link of a stub never starts with "/"
C5_NotRootRelative ==
    (fpc = "returned" /\ fout # None) => ~StartsWith(fout[1].link, <<"/">>)

\* the title selectors that match an element of non-empty trimmed text
TitleHits(kids) ==
    {k \in 1..Len(title_selectors) :
        /\ select_one(kids, title_selectors[k]) # None
        /\ get_text(select_one(kids, title_selectors[k])[1]) # <<>>}

\* C6: the title is the first non-empty trimmed text over the title
\* selectors; a card is dropped for its title only when no selector gives one.
C6_FirstNonEmptyTitle ==
    (fpc = "returned" /\ ~fin.fault /\ LinkLoop(fin.kids, link_selectors) # None) =>
        IF TitleHits(fin.kids) = {} THEN fout = None
        ELSE /\ fout # None
             /\ fout[1].title =
                  get_text(select_one(fin.kids, title_selectors[Min(TitleHits(fin.kids))])[1])

\* C9: a raw summary longer than 200 characters is stored as its first 200
\* characters followed by "..."; one of 200 characters or fewer is unchanged.
C9_Truncation ==
    (fpc = "returned" /\ fout # None) =>
        LET raw == SummaryLoop(fin.kids, summary_selectors)
        IN  IF Len(raw) > 200
            THEN /\ Len(fout[1].summary) = 203
                 /\ SubSeq(fout[1].summary, 1, 200) = SubSeq(raw, 1, 200)
                 /\ SubSeq(fout[1].summary, 201, 203) = <<".", ".", ".">>
            ELSE fout[1].summary = raw

\* a stub of a card whose raw summary has 201 characters
C9_Witness ==
    /\ fpc = "returned"
    /\ fout # None
    /\ Len(SummaryLoop(fin.kids, summary_selectors)) = 201
    /\ Len(fout[1].summary) = 203

\* a stub of a card whose raw summary has exactly 200 characters
C9_WitnessBoundary ==
    /\ fpc = "returned"
    /\ fout # None
    /\ Len(SummaryLoop(fin.kids, summary_selectors)) = 200

----------------------------------------------------------------------------
(* Properties of generate_summary                                          *)

\* the trimmed texts, longer than 20, of the pieces of a body
RECURSIVE Qualifying(_)
Qualifying(pieces) ==
    IF pieces = <<>> THEN <<>>
    ELSE (IF Len(Strip(Head(pieces).text)) > 20 THEN <<Strip(Head(pieces).text)>> ELSE <<>>)
         \o Qualifying(Tail(pieces))

\* C8: the result is existing_summary when its trimmed length exceeds 50;
\* else the first two (or the one) segments of trimmed length over 20 joined
\* with ". " and ended by "."; else "News article: " and the title; it is
\* never empty.
C8_Tiers ==
    fpc = "returned" =>
        LET q == Qualifying(fin.pieces)
            out == fout[1]
        IN  /\ out # <<>>
            /\ IF Len(Strip(fin.existing_summary)) > 50 THEN out = fin.existing_summary
               ELSE IF Len(q) >= 2 THEN out = q[1] \o <<".", " ">> \o q[2] \o <<".">>
               ELSE IF Len(q) = 1 THEN out = q[1] \o <<".">>
               ELSE out = <<"N","e","w","s"," ","a","r","t","i","c","l","e",":"," ">> \o fin.title

\* a summary made of the first two of three qualifying segments that follow
\* a short one, the existing summary being exactly 50 characters long
C8_Witness ==
    /\ fpc = "returned"
    /\ Len(Strip(fin.existing_summary)) = 50
    /\ Len(Qualifying(fin.pieces)) = 2
    /\ Len(fin.pieces) = 3
    /\ Len(Strip(fin.pieces[1].text)) <= 20

----------------------------------------------------------------------------
(* Properties of get_full_article_content                                  *)

ContentHits(page) ==
    {k \in 1..Len(content_selectors) : select(page, content_selectors[k]) # <<>>}

\* the blocks matched by the first content selector that matches anything
FirstBlocks(page) ==
    IF ContentHits(page) = {} THEN <<>>
    ELSE select(page, content_selectors[Min(ContentHits(page))])

RECURSIVE TrimmedNonEmpty(_)
TrimmedNonEmpty(blocks) ==
    IF blocks = <<>> THEN <<>>
    ELSE (IF Strip(Head(blocks).text) # <<>> THEN <<Strip(Head(blocks).text)>> ELSE <<>>)
         \o TrimmedNonEmpty(Tail(blocks))

Fetched == fpc = "returned" /\ fin = urlA /\ urlA \notin down

\* C10: the body is the non-empty trimmed texts among matching blocks 1..5,
\* joined with single spaces.
C10_FirstFiveBlocks ==
    Fetched => fout[1] = Join(<<" ">>, TrimmedNonEmpty(Take(FirstBlocks(site[urlA]), 5)))

\* C10 as the code has it: the body is the first 5 of the non-empty trimmed
\* texts of all the matching blocks, joined with single spaces; and it is
\* empty when the fetch fails.
C10_FirstFiveTexts ==
    /\ Fetched => fout[1] = Join(<<" ">>, Take(TrimmedNonEmpty(FirstBlocks(site[urlA])), 5))
    /\ (fpc = "returned" /\ ~Fetched) => fout[1] = <<>>

\* a body holding the text of the 6th matching block, an earlier one being empty
C10_Witness ==
    /\ Fetched
    /\ Len(FirstBlocks(site[urlA])) >= 6
    /\ Len(TrimmedNonEmpty(Take(FirstBlocks(site[urlA]), 5))) = 4
    /\ Strip(FirstBlocks(site[urlA])[6].text) # <<>>
    /\ Len(TrimmedNonEmpty(FirstBlocks(site[urlA]))) >= 6

====
